---- MODULE Spec2Model ----
(***************************************************************************)
(* Model of plugins/metrics/rpc.go: the RPC facade of the metrics plugin.  *)
(* rpcServer.Declare builds a prometheus collector, stores it in the       *)
(* plugin's sync.Map (svc.collectors) and registers it with the            *)
(* exposition registry; Add, Sub, Set and Observe load a collector by name *)
(* and dispatch on its dynamic type.                                       *)
(*                                                                         *)
(* Every RPC call runs in its own goroutine.  Declare touches shared state *)
(* three times (Load, Store, Register), so it is three actions; the other  *)
(* handlers touch the map once and then only the collector they loaded,    *)
(* whose primitives are atomic, so each is one action.                     *)
(*                                                                         *)
(* Spec runs NumProcs goroutines over the inputs a Declare race needs;     *)
(* SpecSeq runs one goroutine, call after call, over every collector type, *)
(* label list and value.                                                    *)
(***************************************************************************)
EXTENDS Integers, Sequences, FiniteSets, TLC

\* ------------------------------------------------------------------ bounds
NumProcs == 2          \* goroutines serving RPC calls concurrently
MaxCalls == 3          \* calls started in one execution of Spec
MaxSeqCalls == 3       \* calls made in one execution of SpecSeq

Procs == 1..NumProcs

\* ------------------------------------------------------------------ inputs
Names      == {"m", "x_m"}                \* NamedCollector.Name / Metric.Name
Namespaces == {"", "x"}                   \* NamedCollector.Namespace
Subsystems == {""}                        \* NamedCollector.Subsystem
LabelNames == {<<>>, <<"l">>}             \* NamedCollector.Labels
LabelValues == {<<>>, <<"a">>, <<"b">>, <<"a", "b">>}   \* Metric.Labels
Values     == {-1, 2}                     \* Metric.Value

\* CollectorType values switched on by Declare, and one that is none of them
Histogram == "histogram"
Gauge     == "gauge"
Counter   == "counter"
Summary   == "summary"
CollectorTypes == {Histogram, Gauge, Counter, Summary}
Types == CollectorTypes \cup {"bogus"}

NamedCollectors ==
  [Name : Names, Type : Types, Namespace : Namespaces,
   Subsystem : Subsystems, Labels : LabelNames]

Metrics == [Name : Names, Value : Values, Labels : LabelValues]

\* The inputs of Spec: scalar gauges and an unknown type, one value.
RaceCollectors == {nc \in NamedCollectors : nc.Type \in {Gauge, "bogus"} /\ nc.Labels = <<>>}
RaceMetrics    == {m \in Metrics : m.Value = 2 /\ m.Labels = <<>>}

\* ------------------------------------------------------------------ state
VARIABLES
  collectors,   \* svc.collectors: Name -> collector instance (NoCollector = absent)
  heap,         \* the collector instances built so far, by instance id
  registered,   \* instance ids registered with the exposition registry
  pc,           \* per goroutine: position inside Declare, or "idle"
  loc,          \* per goroutine: the running Declare's nc and built collector
  last,         \* the call that finished last, its *ok and its error
  declared,     \* per name: number of Declare calls that returned nil
  stored,       \* instance ids that collectors.Store has installed
  calls,        \* calls started
  crashed       \* an uncaught panic has brought the process down

vars == <<collectors, heap, registered, pc, loc, last, declared, stored, calls, crashed>>

NoCollector == 0

\* ------------------------------------------------------- collector library
\* prometheus.BuildFQName: the non-empty parts joined by "_".
BuildFQName(namespace, subsystem, name) ==
  IF name = "" THEN ""
  ELSE IF namespace # "" /\ subsystem # "" THEN namespace \o "_" \o subsystem \o "_" \o name
  ELSE IF namespace # "" THEN namespace \o "_" \o name
  ELSE IF subsystem # "" THEN subsystem \o "_" \o name
  ELSE name

\* Dynamic types of the collectors Declare builds.
IsVec(go) == go \in {"*HistogramVec", "*GaugeVec", "*CounterVec", "*SummaryVec"}

\* Method sets of the scalar collectors' concrete types, and of the interfaces
\* the type switches name.  A case on an interface type matches every value
\* whose method set includes the interface's.
MetricCollector == {"Desc", "Write", "Describe", "Collect"}
IfaceGauge      == MetricCollector \cup {"Set", "Inc", "Dec", "Add", "Sub", "SetToCurrentTime"}
IfaceCounter    == MetricCollector \cup {"Inc", "Add"}
IfaceHistogram  == MetricCollector \cup {"Observe"}

MethodSet(go) ==
  CASE go = "gauge"     -> IfaceGauge
    [] go = "counter"   -> IfaceCounter
    [] go = "histogram" -> MetricCollector \cup {"Observe"}
    [] go = "summary"   -> MetricCollector \cup {"Observe"}
    [] OTHER            -> {"Describe", "Collect", "WithLabelValues"}

Implements(go, iface) == iface \subseteq MethodSet(go)

\* The numeric state of one metric: val is the counter/gauge value or the sum
\* of the observations, cnt the number of observations.
Zero == [val |-> 0, cnt |-> 0]

\* prometheus.NewX / NewXVec as called by Declare: the vector constructor when
\* label names are given, the scalar one otherwise.  A scalar holds its one
\* metric from the start (under the empty label tuple); a vector creates a
\* child per label tuple on first use.
NewCollector(nc) ==
  LET vec == Len(nc.Labels) # 0
      go  == CASE nc.Type = Histogram -> IF vec THEN "*HistogramVec" ELSE "histogram"
               [] nc.Type = Gauge     -> IF vec THEN "*GaugeVec"     ELSE "gauge"
               [] nc.Type = Counter   -> IF vec THEN "*CounterVec"   ELSE "counter"
               [] nc.Type = Summary   -> IF vec THEN "*SummaryVec"   ELSE "summary"
  IN [go     |-> go,
      Name   |-> nc.Name,
      fq     |-> BuildFQName(nc.Namespace, nc.Subsystem, nc.Name),
      labels |-> Len(nc.Labels),
      vals   |-> IF vec THEN [t \in {} |-> Zero] ELSE [t \in {<<>>} |-> Zero]]

\* The metric a primitive call addresses: the scalar's own, or the child that
\* WithLabelValues(lvs...) returns (created at zero when new).
Child(c, lvs) == IF lvs \in DOMAIN c.vals THEN c.vals[lvs] ELSE Zero

\* WithLabelValues panics (with an error value) unless one value is given per
\* declared label name.
Mismatch(c, lvs) == Len(lvs) # c.labels

\* Apply with Sub adding the value.
Apply_SubAdds(c, lvs, method, v) ==
  LET old == Child(c, lvs)
      new == CASE method = "Add"     -> [old EXCEPT !.val = @ + v]
               [] method = "Sub"     -> [old EXCEPT !.val = @ + v]
               [] method = "Set"     -> [old EXCEPT !.val = v]
               [] method = "Observe" -> [val |-> old.val + v, cnt |-> old.cnt + 1]
  IN [c EXCEPT !.vals = (lvs :> new) @@ c.vals]

\* Apply that keeps only the child it updates.
Apply_DropsChildren(c, lvs, method, v) ==
  LET old == Child(c, lvs)
      new == CASE method = "Add"     -> [old EXCEPT !.val = @ + v]
               [] method = "Sub"     -> [old EXCEPT !.val = @ - v]
               [] method = "Set"     -> [old EXCEPT !.val = v]
               [] method = "Observe" -> [val |-> old.val + v, cnt |-> old.cnt + 1]
  IN [c EXCEPT !.vals = (lvs :> new)]

\* The collector after primitive `method` with value v on the metric under lvs.
Apply(c, lvs, method, v) ==
  LET old == Child(c, lvs)
      new == CASE method = "Add"     -> [old EXCEPT !.val = @ + v]
               [] method = "Sub"     -> [old EXCEPT !.val = @ - v]
               [] method = "Set"     -> [old EXCEPT !.val = v]
               [] method = "Observe" -> [val |-> old.val + v, cnt |-> old.cnt + 1]
  IN [c EXCEPT !.vals = (lvs :> new) @@ c.vals]

\* Register of the exposition registry: refuses a collector whose fully
\* qualified name is already exported, and returns that as an error.
RegisterFails(c) == \E i \in registered : heap[i].fq = heap[c].fq

\* ------------------------------------------------------------ call records
Idle == [n |-> 0, Name |-> "", c |-> NoCollector]

\* A finished call: the n-th call started, what was called, with what, on
\* which collector, and the reply (*ok, starting false) and error it returned.
Result(n, op, name, arg, c, ok, err) ==
  [n |-> n, op |-> op, Name |-> name, arg |-> arg, c |-> c, ok |-> ok, err |-> err]

NoResult == Result(0, "none", "", <<>>, NoCollector, FALSE, "nil")

Init ==
  /\ collectors = [n \in Names |-> NoCollector]
  /\ heap = <<>>
  /\ registered = {}
  /\ pc = [p \in Procs |-> "idle"]
  /\ loc = [p \in Procs |-> Idle]
  /\ last = NoResult
  /\ declared = [n \in Names |-> 0]
  /\ stored = {}
  /\ calls = 0
  /\ crashed = FALSE

\* A goroutine picks up the next RPC call.
Begin(p, max) ==
  /\ ~crashed
  /\ pc[p] = "idle"
  /\ calls < max
  /\ calls' = calls + 1

Return(p, r) ==
  /\ last' = r
  /\ pc' = [pc EXCEPT ![p] = "idle"]
  /\ loc' = [loc EXCEPT ![p] = Idle]

\* An uncaught panic in a handler goroutine ends the process.
Panic(p, r) ==
  /\ last' = r
  /\ crashed' = TRUE
  /\ UNCHANGED <<pc, loc>>

\* ------------------------------------------------------------------ Declare
\* DeclareLoad without the Load: the collector is built whether or not the
\* name is taken.
DeclareLoad_NoLoad(p, nc, max) ==
  /\ Begin(p, max)
  /\ IF nc.Type \notin CollectorTypes
       THEN /\ Return(p, Result(calls + 1, "Declare", nc.Name, nc, NoCollector, FALSE,
                                "UnknownKind"))
            /\ UNCHANGED heap
       ELSE /\ heap' = Append(heap, NewCollector(nc))
            /\ pc' = [pc EXCEPT ![p] = "store"]
            /\ loc' = [loc EXCEPT ![p] =
                         [n |-> calls + 1, Name |-> nc.Name, c |-> Len(heap) + 1]]
            /\ UNCHANGED last
  /\ UNCHANGED <<collectors, registered, declared, stored, crashed>>

\* DeclareLoad with the Store ahead of the type switch: an unknown type leaves
\* a default collector in the map before the error is returned.
DeclareLoad_StoreBeforeSwitch(p, nc, max) ==
  /\ Begin(p, max)
  /\ IF collectors[nc.Name] # NoCollector
       THEN /\ Return(p, Result(calls + 1, "Declare", nc.Name, nc, NoCollector, FALSE,
                                "AlreadyExists"))
            /\ UNCHANGED <<heap, collectors, stored>>
     ELSE IF nc.Type \notin CollectorTypes
       THEN /\ heap' = Append(heap, NewCollector([nc EXCEPT !.Type = Gauge]))
            /\ collectors' = [collectors EXCEPT ![nc.Name] = Len(heap) + 1]
            /\ stored' = stored \cup {Len(heap) + 1}
            /\ Return(p, Result(calls + 1, "Declare", nc.Name, nc, NoCollector, FALSE,
                                "UnknownKind"))
     ELSE /\ heap' = Append(heap, NewCollector(nc))
          /\ pc' = [pc EXCEPT ![p] = "store"]
          /\ loc' = [loc EXCEPT ![p] =
                       [n |-> calls + 1, Name |-> nc.Name, c |-> Len(heap) + 1]]
          /\ UNCHANGED <<last, collectors, stored>>
  /\ UNCHANGED <<registered, declared, crashed>>

\* Declare up to its Store: the Load, the AlreadyExists return, the switch on
\* nc.Type that builds the collector or returns the unknown-type error.
DeclareLoad(p, nc, max) ==
  /\ Begin(p, max)
  /\ IF collectors[nc.Name] # NoCollector
       THEN /\ Return(p, Result(calls + 1, "Declare", nc.Name, nc, NoCollector, FALSE,
                                "AlreadyExists"))
            /\ UNCHANGED heap
     ELSE IF nc.Type \notin CollectorTypes
       THEN /\ Return(p, Result(calls + 1, "Declare", nc.Name, nc, NoCollector, FALSE,
                                "UnknownKind"))
            /\ UNCHANGED heap
     ELSE /\ heap' = Append(heap, NewCollector(nc))
          /\ pc' = [pc EXCEPT ![p] = "store"]
          /\ loc' = [loc EXCEPT ![p] =
                       [n |-> calls + 1, Name |-> nc.Name, c |-> Len(heap) + 1]]
          /\ UNCHANGED last
  /\ UNCHANGED <<collectors, registered, declared, stored, crashed>>

\* rpc.svc.collectors.Store(nc.Name, collector)
DeclareStore(p) ==
  /\ ~crashed
  /\ pc[p] = "store"
  /\ collectors' = [collectors EXCEPT ![loc[p].Name] = loc[p].c]
  /\ stored' = stored \cup {loc[p].c}
  /\ pc' = [pc EXCEPT ![p] = "register"]
  /\ UNCHANGED <<heap, registered, loc, last, declared, calls, crashed>>

\* DeclareRegister with the panic of a failed registration left uncaught.
DeclareRegister_MustRegister(p) ==
  /\ ~crashed
  /\ pc[p] = "register"
  /\ IF RegisterFails(loc[p].c)
       THEN /\ Panic(p, Result(loc[p].n, "Declare", loc[p].Name, <<>>, loc[p].c, FALSE,
                               "panic"))
            /\ UNCHANGED <<registered, declared>>
       ELSE /\ registered' = registered \cup {loc[p].c}
            /\ declared' = [declared EXCEPT ![loc[p].Name] = @ + 1]
            /\ Return(p, Result(loc[p].n, "Declare", loc[p].Name, <<>>, loc[p].c, TRUE, "nil"))
            /\ UNCHANGED crashed
  /\ UNCHANGED <<collectors, heap, stored, calls>>

\* DeclareRegister that takes the name out of the map when registration fails.
DeclareRegister_Rollback(p) ==
  /\ ~crashed
  /\ pc[p] = "register"
  /\ IF RegisterFails(loc[p].c)
       THEN /\ collectors' = [collectors EXCEPT ![loc[p].Name] = NoCollector]
            /\ Return(p, Result(loc[p].n, "Declare", loc[p].Name, <<>>, loc[p].c, FALSE,
                                "RegistrationConflict"))
            /\ UNCHANGED <<registered, declared>>
       ELSE /\ registered' = registered \cup {loc[p].c}
            /\ declared' = [declared EXCEPT ![loc[p].Name] = @ + 1]
            /\ Return(p, Result(loc[p].n, "Declare", loc[p].Name, <<>>, loc[p].c, TRUE, "nil"))
            /\ UNCHANGED collectors
  /\ UNCHANGED <<heap, stored, calls, crashed>>

\* DeclareRegister with *ok = true set ahead of Register and not reset.
DeclareRegister_OkBeforeRegister(p) ==
  /\ ~crashed
  /\ pc[p] = "register"
  /\ IF RegisterFails(loc[p].c)
       THEN /\ Return(p, Result(loc[p].n, "Declare", loc[p].Name, <<>>, loc[p].c, TRUE,
                                "RegistrationConflict"))
            /\ UNCHANGED <<registered, declared>>
       ELSE /\ registered' = registered \cup {loc[p].c}
            /\ declared' = [declared EXCEPT ![loc[p].Name] = @ + 1]
            /\ Return(p, Result(loc[p].n, "Declare", loc[p].Name, <<>>, loc[p].c, TRUE, "nil"))
  /\ UNCHANGED <<collectors, heap, stored, calls, crashed>>

\* err := rpc.svc.Register(collector) and the two returns after it.
DeclareRegister(p) ==
  /\ ~crashed
  /\ pc[p] = "register"
  /\ IF RegisterFails(loc[p].c)
       THEN /\ Return(p, Result(loc[p].n, "Declare", loc[p].Name, <<>>, loc[p].c, FALSE,
                                "RegistrationConflict"))
            /\ UNCHANGED <<registered, declared>>
       ELSE /\ registered' = registered \cup {loc[p].c}
            /\ declared' = [declared EXCEPT ![loc[p].Name] = @ + 1]
            /\ Return(p, Result(loc[p].n, "Declare", loc[p].Name, <<>>, loc[p].c, TRUE, "nil"))
  /\ UNCHANGED <<collectors, heap, stored, calls, crashed>>

\* ------------------------------------------------- Add, Sub, Set, Observe
\* The case each handler's type switch takes for a collector of dynamic type
\* go, cases tried in source order: "scalar" and "vec" update, "default"
\* rejects the method.
AddCase(go) ==
  IF Implements(go, IfaceGauge) THEN "scalar"
  ELSE IF go = "*GaugeVec" THEN "vec"
  ELSE IF Implements(go, IfaceCounter) THEN "scalar"
  ELSE IF go = "*CounterVec" THEN "vec"
  ELSE "default"

SubCase(go) ==
  IF Implements(go, IfaceGauge) THEN "scalar"
  ELSE IF go = "*GaugeVec" THEN "vec"
  ELSE "default"

\* ObserveCase with the Histogram case matching the histogram type alone.
ObserveCase_HistogramOnly(go) ==
  IF go = "*SummaryVec" THEN "vec"
  ELSE IF go = "histogram" THEN "scalar"
  ELSE IF go = "*HistogramVec" THEN "vec"
  ELSE "default"

ObserveCase(go) ==
  IF go = "*SummaryVec" THEN "vec"
  ELSE IF Implements(go, IfaceHistogram) THEN "scalar"
  ELSE IF go = "*HistogramVec" THEN "vec"
  ELSE "default"

SetCase(go) ==
  IF Implements(go, IfaceGauge) THEN "scalar"
  ELSE IF go = "*GaugeVec" THEN "vec"
  ELSE "default"

\* A counter panics on Add of a negative value.
PrimitivePanics(c, method, v) ==
  method = "Add" /\ c.go \in {"counter", "*CounterVec"} /\ v < 0

\* LabelsMissing with the length check dropped.
LabelsMissing_Never(case, m) == FALSE

\* A vector case returns the required-labels error when no label value came.
LabelsMissing(case, m) == case = "vec" /\ Len(m.Labels) = 0

\* The body the four handlers share: Load, the not-found return, the type
\* switch `case`, the label check of a vector case, the primitive call.  A
\* panic of the primitive is recovered (and returned as the error) only where
\* the handler defers a recover.
Handle(p, op, m, case, recovers, max) ==
  LET c   == collectors[m.Name]
      R(ok, err) == Result(calls + 1, op, m.Name, m, c, ok, err)
      lvs == IF case = "vec" THEN m.Labels ELSE <<>>
  IN
  /\ Begin(p, max)
  /\ IF c = NoCollector
       THEN Return(p, R(FALSE, "NotFound")) /\ UNCHANGED <<heap, crashed>>
     ELSE IF case = "default"
       THEN Return(p, R(FALSE, "UnsupportedOperation")) /\ UNCHANGED <<heap, crashed>>
     ELSE IF LabelsMissing(case, m)
       THEN Return(p, R(FALSE, "LabelsRequired")) /\ UNCHANGED <<heap, crashed>>
     ELSE IF (case = "vec" /\ Mismatch(heap[c], m.Labels))
             \/ PrimitivePanics(heap[c], op, m.Value)
       THEN IF recovers
              THEN Return(p, R(FALSE, "PrimitiveError")) /\ UNCHANGED <<heap, crashed>>
              ELSE Panic(p, R(FALSE, "panic")) /\ UNCHANGED heap
     ELSE /\ heap' = [heap EXCEPT ![c] = Apply(heap[c], lvs, op, m.Value)]
          /\ Return(p, R(TRUE, "nil"))
          /\ UNCHANGED crashed
  /\ UNCHANGED <<collectors, registered, declared, stored>>

\* Add whose not-found branch does not return: the reply is set and nil
\* returned.
Add_OkOnMissing(p, m, max) ==
  IF collectors[m.Name] = NoCollector
    THEN /\ Begin(p, max)
         /\ Return(p, Result(calls + 1, "Add", m.Name, m, NoCollector, TRUE, "nil"))
         /\ UNCHANGED <<collectors, heap, registered, declared, stored, crashed>>
    ELSE Handle(p, "Add", m, AddCase(heap[collectors[m.Name]].go), FALSE, max)

Add(p, m, max) ==
  Handle(p, "Add", m,
         IF collectors[m.Name] = NoCollector THEN "default"
         ELSE AddCase(heap[collectors[m.Name]].go), FALSE, max)

Sub(p, m, max) ==
  Handle(p, "Sub", m,
         IF collectors[m.Name] = NoCollector THEN "default"
         ELSE SubCase(heap[collectors[m.Name]].go), FALSE, max)

Observe(p, m, max) ==
  Handle(p, "Observe", m,
         IF collectors[m.Name] = NoCollector THEN "default"
         ELSE ObserveCase(heap[collectors[m.Name]].go), FALSE, max)

Set(p, m, max) ==
  Handle(p, "Set", m,
         IF collectors[m.Name] = NoCollector THEN "default"
         ELSE SetCase(heap[collectors[m.Name]].go), TRUE, max)

\* ------------------------------------------------------------ specification
\* NumProcs goroutines, their steps interleaved.
Next ==
  \E p \in Procs :
    \/ \E nc \in RaceCollectors : DeclareLoad(p, nc, MaxCalls)
    \/ DeclareStore(p)
    \/ DeclareRegister(p)
    \/ \E m \in RaceMetrics : Add(p, m, MaxCalls)
    \/ \E m \in RaceMetrics : Sub(p, m, MaxCalls)
    \/ \E m \in RaceMetrics : Set(p, m, MaxCalls)
    \/ \E m \in RaceMetrics : Observe(p, m, MaxCalls)

Spec == Init /\ [][Next]_vars

\* One goroutine: every call returns before the next begins.
NextSeq ==
  \/ \E nc \in NamedCollectors : DeclareLoad(1, nc, MaxSeqCalls)
  \/ DeclareStore(1)
  \/ DeclareRegister(1)
  \/ \E m \in Metrics : Add(1, m, MaxSeqCalls)
  \/ \E m \in Metrics : Sub(1, m, MaxSeqCalls)
  \/ \E m \in Metrics : Set(1, m, MaxSeqCalls)
  \/ \E m \in Metrics : Observe(1, m, MaxSeqCalls)

SpecSeq == Init /\ [][NextSeq]_vars

\* ------------------------------------------------------------------ claims
Ops == {"Add", "Sub", "Set", "Observe"}

\* The collector instances that Store has installed under name n.
Installed(n) == {i \in stored : heap[i].Name = n}

\* A call returned in this step.
Returned == last'.n # last.n

\* The compatibility table of the specification, by dynamic type.
TableAllows(go, op) ==
  CASE go \in {"counter", "*CounterVec"}     -> op = "Add"
    [] go \in {"gauge", "*GaugeVec"}         -> op \in {"Add", "Sub", "Set"}
    [] go \in {"histogram", "*HistogramVec"} -> op = "Observe"
    [] go = "*SummaryVec"                    -> op = "Observe"
    [] OTHER                                 -> FALSE

\* C1: concurrent Declare calls on one name install at most one collector
\* instance for it, and once one of them has succeeded every other one that
\* fails does so with AlreadyExists.
C1_AtomicDeclareRace ==
  \A n \in Names :
    /\ Cardinality(Installed(n)) <= 1
    /\ (last.op = "Declare" /\ last.Name = n /\ last.err # "nil" /\ declared[n] >= 1)
         => last.err = "AlreadyExists"

\* C2: a name is in the map only when its collector's registration has
\* succeeded, and an operation updates only registered collectors.
C2_LookupOnlyAfterRegister ==
  /\ \A n \in Names : collectors[n] # NoCollector => collectors[n] \in registered
  /\ (last.op \in Ops /\ last.err = "nil") => last.c \in registered

\* C3: at most one Declare of a name ever returns success.
C3_AtMostOneDeclareSucceeds == \A n \in Names : declared[n] <= 1

\* C4: once a Declare of a name has succeeded, a following Declare of it
\* returns AlreadyExists, builds and stores nothing, registers nothing, and the
\* map holds the one registered collector installed for the name.
C4_OneCollector ==
  \A n \in Names :
    declared[n] >= 1 =>
      /\ collectors[n] \in registered
      /\ Installed(n) = {collectors[n]}

C4_SecondDeclare ==
  \A n \in Names :
    declared[n] >= 1 =>
      /\ ~(pc[1] = "idle" /\ pc'[1] = "store" /\ loc'[1].Name = n)
      /\ (Returned /\ last'.op = "Declare" /\ last'.Name = n)
           => /\ last'.err = "AlreadyExists"
              /\ ~last'.ok
              /\ UNCHANGED <<collectors, heap, registered, stored>>

\* C4: both parts, in every state and over every step of sequential calls.
C4_DeclareTwice == [](C4_OneCollector) /\ [][C4_SecondDeclare]_vars

C4_Witness ==
  /\ last.op = "Declare" /\ last.err = "AlreadyExists"
  /\ declared[last.Name] = 1

\* C5: an operation on a collector of one of the seven listed variants, with
\* at least one label value for a vector, succeeds when the table allows it
\* and fails with UnsupportedOperation when it does not.
C5_CompatibilityMatrix ==
  (/\ last.op \in Ops
   /\ last.c # NoCollector
   /\ heap[last.c].go # "summary"
   /\ IsVec(heap[last.c].go) => Len(last.arg.Labels) >= 1)
  => IF TableAllows(heap[last.c].go, last.op)
       THEN last.err = "nil" /\ last.ok
       ELSE last.err = "UnsupportedOperation" /\ ~last.ok

C8_UnknownKindStep ==
  (/\ Returned
   /\ last'.op = "Declare"
   /\ last'.c = NoCollector
   /\ last'.arg.Type \notin CollectorTypes
   /\ collectors[last'.Name] = NoCollector)
  => /\ last'.err = "UnknownKind"
     /\ ~last'.ok
     /\ UNCHANGED <<collectors, heap, registered, stored, declared, crashed>>

\* C8: every step that returns from such a Declare is as C8_UnknownKindStep says.
C8_UnknownKindNoEffect == [][C8_UnknownKindStep]_vars

C8_Witness ==
  /\ last.op = "Declare" /\ last.err = "UnknownKind"
  /\ collectors[last.Name] = NoCollector

\* C9: Add, Sub, Set and Observe of a name that is not in the map return
\* NotFound with the reply false and change neither the map nor any collector.
C9_NotFoundStep ==
  (/\ Returned
   /\ last'.op \in Ops
   /\ collectors[last'.Name] = NoCollector)
  => /\ last'.err = "NotFound"
     /\ ~last'.ok
     /\ UNCHANGED <<collectors, heap, registered, stored, declared, crashed>>

\* C9: every step that returns from such a call is as C9_NotFoundStep says.
C9_NotFoundNoEffect == [][C9_NotFoundStep]_vars

C9_Witness ==
  /\ last.op \in Ops /\ last.err = "NotFound"
  /\ \E n \in Names : collectors[n] # NoCollector

\* C10: a name that is in the map stays in the map.
C10_RegistryGrows ==
  [][\A n \in Names : collectors[n] # NoCollector => collectors'[n] # NoCollector]_vars

C10_Witness ==
  /\ last.op = "Declare" /\ last.err = "RegistrationConflict"
  /\ collectors[last.Name] # NoCollector

\* C11: the collector bound to a name is never replaced by another instance.
C11_BindingNeverChanges ==
  [][\A n \in Names : collectors[n] # NoCollector => collectors'[n] = collectors[n]]_vars

\* C12: with one call at a time, a name whose registration failed is in the
\* map with an unregistered collector.
RegistrationFailed(n) ==
  pc[1] = "idle" /\ collectors[n] # NoCollector /\ collectors[n] \notin registered

C12_Step ==
  /\ (pc[1] = "register" /\ Returned /\ last'.err = "RegistrationConflict")
       => /\ collectors'[last'.Name] = last'.c
          /\ last'.c \notin registered'
          /\ pc'[1] = "idle"
  /\ \A n \in Names :
       RegistrationFailed(n) =>
         /\ collectors'[n] = collectors[n]
         /\ ~(pc'[1] = "store" /\ loc'[1].Name = n)
         /\ (Returned /\ last'.op = "Declare" /\ last'.Name = n)
              => last'.err = "AlreadyExists"
         /\ (Returned /\ last'.op \in Ops /\ last'.Name = n)
              => last'.c = collectors[n] /\ last'.err # "NotFound"

\* C12: a failed registration leaves the name in the map; every later Declare
\* of it returns AlreadyExists and builds nothing; every later operation on it
\* resolves to the unregistered collector.
C12_NoRollback == [][C12_Step]_vars

\* A Declare of the name was refused although its fully qualified name is
\* free in the exposition registry.
C12_Witness ==
  /\ last.op = "Declare" /\ last.err = "AlreadyExists"
  /\ RegistrationFailed(last.Name)
  /\ \A i \in registered :
       heap[i].fq # BuildFQName(last.arg.Namespace, last.arg.Subsystem, last.arg.Name)

\* C13 as stated: Observe on a scalar Summary is rejected, and Observe
\* succeeds on a vector Summary and on the two Histograms only.
C13_ScalarSummaryRejected ==
  (last.op = "Observe" /\ last.c # NoCollector)
  => /\ heap[last.c].go = "summary" => last.err = "UnsupportedOperation"
     /\ last.err = "nil" => heap[last.c].go \in {"*SummaryVec", "histogram", "*HistogramVec"}

\* C13 as amended: Observe on a scalar Summary succeeds and records the
\* sample, and Observe succeeds on the Summaries and the Histograms only.
C13_ScalarSummaryObserved ==
  (last.op = "Observe" /\ last.c # NoCollector)
  => /\ heap[last.c].go = "summary"
          => /\ last.err = "nil" /\ last.ok
             /\ heap[last.c].vals[<<>>].cnt >= 1
     /\ last.err = "nil"
          => heap[last.c].go \in {"summary", "*SummaryVec", "histogram", "*HistogramVec"}

C13_Witness ==
  /\ last.op = "Observe" /\ last.c # NoCollector
  /\ heap[last.c].go = "summary"
  /\ last.c \in registered
  /\ last.err = "nil"

\* C14: a call on a counter never lowers any of its values and never brings
\* the process down.
C14_Step ==
  \A i \in 1..Len(heap) :
    heap[i].go \in {"counter", "*CounterVec"} =>
      /\ \A t \in DOMAIN heap[i].vals :
           t \in DOMAIN heap'[i].vals /\ heap'[i].vals[t].val >= heap[i].vals[t].val
      /\ \A t \in DOMAIN heap'[i].vals : heap'[i].vals[t].val >= 0
      /\ (Returned /\ last'.op \in Ops /\ last'.c = i) => ~crashed'

C14_CounterMonotonic == [][C14_Step]_vars

\* C15: the label tuple an operation addresses.
Addressed(r) == IF IsVec(heap[r.c].go) THEN r.arg.Labels ELSE <<>>

C15_Step ==
  (Returned /\ last'.op \in Ops)
  => /\ UNCHANGED <<collectors, registered, stored, declared>>
     /\ Len(heap') = Len(heap)
     /\ \A i \in 1..Len(heap) :
          IF i # last'.c
            THEN heap'[i] = heap[i]
            ELSE /\ [heap'[i] EXCEPT !.vals = heap[i].vals] = heap[i]
                 /\ DOMAIN heap'[i].vals \subseteq DOMAIN heap[i].vals \cup {Addressed(last')}
                 /\ \A t \in DOMAIN heap[i].vals :
                      t # Addressed(last')
                        => t \in DOMAIN heap'[i].vals /\ heap'[i].vals[t] = heap[i].vals[t]
     /\ last'.err \in {"NotFound", "LabelsRequired", "UnsupportedOperation"}
          => UNCHANGED <<heap, crashed>>

\* C15: an operation changes at most the addressed metric of the collector
\* it resolved, and nothing at all when it fails with NotFound, LabelsRequired
\* or UnsupportedOperation.
C15_Frame == [][C15_Step]_vars

C15_Witness ==
  /\ last.op \in Ops /\ last.err = "nil"
  /\ IsVec(heap[last.c].go)
  /\ Cardinality(DOMAIN heap[last.c].vals) = 2

\* C16: what the claim says each successful call does to a gauge value.
GaugeFold(old, op, v) ==
  CASE op = "Add" -> old + v
    [] op = "Sub" -> old - v
    [] op = "Set" -> v

C16_Step ==
  /\ (Len(heap') > Len(heap) /\ heap'[Len(heap')].go = "gauge")
       => heap'[Len(heap')].vals[<<>>].val = 0
  /\ \A i \in 1..Len(heap) :
       heap[i].go = "gauge" =>
         heap'[i].vals[<<>>].val =
           IF Returned /\ last'.c = i /\ last'.op \in {"Add", "Sub", "Set"} /\ last'.err = "nil"
             THEN GaugeFold(heap[i].vals[<<>>].val, last'.op, last'.arg.Value)
             ELSE heap[i].vals[<<>>].val

\* C16: a scalar gauge starts at 0 and each successful Add, Sub and Set takes
\* its value to the next value of the fold, no other step changing it; so the
\* value is the fold of the calls made, and Sub(v) undoes Add(v).
C16_GaugeFold == [][C16_Step]_vars

\* Sub(2) has brought a gauge back to 0 as the third call.
C16_Witness ==
  /\ last.op = "Sub" /\ last.err = "nil" /\ last.n = 3
  /\ heap[last.c].go = "gauge"
  /\ last.arg.Value = 2
  /\ heap[last.c].vals[<<>>].val = 0

\* C17: an operation whose label values do not match the declared label
\* names in number returns an error, leaves the reply false and leaves the
\* process up.
C17_PrimitiveErrorReturned ==
  (/\ last.op \in Ops
   /\ last.c # NoCollector
   /\ IsVec(heap[last.c].go)
   /\ Len(last.arg.Labels) >= 1
   /\ Len(last.arg.Labels) # heap[last.c].labels)
  => /\ last.err \notin {"nil", "panic"}
     /\ ~last.ok
     /\ ~crashed

\* C18: once a Declare of a name has succeeded, the collector the map holds
\* for the name is registered with the exposition registry.
C18_StoredIsRegistered ==
  \A n \in Names :
    (declared[n] >= 1 /\ collectors[n] # NoCollector) => collectors[n] \in registered

\* C19: a call that returned has set the reply exactly when it returned nil.
C19_OkIffNil ==
  (last.op # "none" /\ last.err # "panic") => (last.ok <=> last.err = "nil")

\* Set has returned the recovered panic of the primitive.
C19_Witness ==
  /\ last.op = "Set" /\ last.err = "PrimitiveError"
  /\ ~last.ok
====
